---- MODULE Spec2Model ----
(***************************************************************************)
(* Model of the Telegram video leech bot (src/main.py): the URL handler    *)
(* with its extractor retries and format selection, the callback handler,  *)
(* the pipeline task (download, normalise, split, upload, cleanup) and the *)
(* progress throttler.                                                     *)
(***************************************************************************)
EXTENDS Integers, Sequences, FiniteSets, TLC

\* ------------------------------------------------------------------ bounds
\* LEECH callback instances handled for the one request under study
MaxRuns == 2
\* largest number of strides (parts) a split produces
MaxParts == 2
\* longest candidate list handed to the format selection
MaxFormats == 3
\* number of Throttler.should calls recorded
MaxCalls == 3
\* largest monotonic clock reading
MaxTime == 11
\* longest duration the probe of the splitter reports, in halves of a second
MaxHalfSecs == 60
\* most progress edits the hooks of one run hand to the event loop
MaxEdits == 2

\* --------------------------------------------------------- program constants
\* PART_MAX_BYTES = int(PART_MAX_GB * 1024 ** 3) with PART_MAX_GB = 1.95
PART_MAX_BYTES == 2093796556
\* PROGRESS_INTERVAL, default of PROGRESS_UPDATE_INTERVAL
PROGRESS_INTERVAL == 5
\* the resolution ceiling of the selection loop
MAX_HEIGHT == 1080

VARIABLES
    \* handle_incoming_url, one request
    hpc,        \* position of the handler
    tried,      \* try_extract_info: the attempts made, in order: options and outcome
    last_exc,   \* try_extract_info: last_exc, <<>> or <<index of the attempt that raised it>>
    raised,     \* the exception handle_incoming_url caught from try_extract_info
    info,       \* what try_extract_info returned, <<formats list>>
    unique,     \* the selection output
    kb,         \* the inline keyboard shown to the user
    hlog,       \* messages the handler emitted (status edits, log channel)
    \* session store
    SESS,       \* set of tokens with a session
    cancelled,  \* tokens whose session a CANCEL callback removed
    \* callback_handler instances and the pipeline task each one creates
    rpc,        \* position of callback / pipeline task i
    rtoken,     \* token carried by callback i
    tmpdir,     \* whether run i's working directory exists
    size,       \* size of src_for_split
    parts,      \* number of entries of the parts list
    idx,        \* index of the stride / part being processed
    delivered,  \* part indexes whose upload returned normally, in order
    trace,      \* what run i did, in order: status edits, log messages, operations
    stage,      \* stage of run i
    \* Throttler
    now,        \* time.monotonic()
    last,       \* Throttler._last
    calls,      \* the should() calls made: key, clock reading, result
    tpc,        \* worker threads inside should(): position
    tkey,       \* key of the call of thread w
    tnow,       \* the clock reading thread w took
    tlast,      \* the timestamp thread w read
    \* split_mp4_by_time
    sp          \* a call of split_mp4_by_time: position, arguments, locals, result

hvars == <<hpc, tried, last_exc, raised, info, unique, kb, hlog>>
svars == <<SESS, cancelled>>
rvars == <<rpc, rtoken, tmpdir, size, parts, idx, delivered, trace, stage>>
tvars == <<now, last, calls, tpc, tkey, tnow, tlast>>
xvars == <<sp>>
vars == <<hvars, svars, rvars, tvars, xvars>>

\* ------------------------------------------------------------ format selection
\* A missing or None value of a dict entry is <<>>, a present value v is <<v>>.
None == <<>>
Some(v) == <<v>>

\* x or 0
OrZero(x) == IF x = None THEN 0 ELSE x[1]

\* f.get("height") or 0
HeightOf(f) == OrZero(f.height)

\* (f.get("filesize") or 0) + int((f.get("tbr") or 0) * 1024); tbr is given in
\* thousandths of a kbps, int() truncates
ScoreOf(f) == OrZero(f.filesize) + ((OrZero(f.tbr) * 1024) \div 1000)

Cand(id, h, vc, fs, tbr) ==
    [format_id |-> id, height |-> h, vcodec |-> vc, filesize |-> fs, tbr |-> tbr]

\* the candidates the extractor may report
Candidates ==
    { Cand("a", Some(720), "avc1", Some(2048), None),
      Cand("b", Some(720), "avc1", None, Some(2000)),
      Cand("c", Some(720), "vp9", Some(1025), Some(1000)),
      Cand("d", Some(1080), "avc1", Some(3000), None),
      Cand("e", Some(1440), "avc1", Some(9000), None),
      Cand("f", None, "avc1", None, None),
      Cand("g", Some(0), "absent", Some(10), None),
      Cand("h", None, "none", Some(500), Some(128000)),
      Cand("i", Some(360), "none", Some(7000), None),
      Cand("j", Some(720), "avc1", None, Some(2001)) }

video_formats_unfiltered(formats) == formats

\* video_formats = [f for f in formats if f.get("vcodec") != "none"]
RECURSIVE video_formats(_)
video_formats(formats) ==
    IF formats = <<>> THEN <<>>
    ELSE IF Head(formats).vcodec # "none"
         THEN <<Head(formats)>> \o video_formats(Tail(formats))
         ELSE video_formats(Tail(formats))

Replaces_on_tie(by_h, f) ==
    \/ HeightOf(f) \notin DOMAIN by_h
    \/ ScoreOf(f) >= ScoreOf(by_h[HeightOf(f)])

\* "if not cur or score > score(cur)": whether f replaces the entry of its height
Replaces(by_h, f) ==
    \/ HeightOf(f) \notin DOMAIN by_h
    \/ ScoreOf(f) > ScoreOf(by_h[HeightOf(f)])

\* the loop "for f in video_formats" building by_h
RECURSIVE by_h_loop(_, _)
by_h_loop(fs, by_h) ==
    IF fs = <<>> THEN by_h
    ELSE LET f == Head(fs)
             h == HeightOf(f)
         IN IF h > MAX_HEIGHT
            THEN by_h_loop(Tail(fs), by_h)
            ELSE IF Replaces(by_h, f)
                 THEN by_h_loop(Tail(fs),
                          [k \in DOMAIN by_h \cup {h} |-> IF k = h THEN f ELSE by_h[k]])
                 ELSE by_h_loop(Tail(fs), by_h)

SetMax(S) == CHOOSE x \in S : \A y \in S : y <= x

SetMin(S) == CHOOSE x \in S : \A y \in S : x <= y

RECURSIVE sorted_ascending(_)
sorted_ascending(S) ==
    IF S = {} THEN <<>>
    ELSE <<SetMin(S)>> \o sorted_ascending(S \ {SetMin(S)})

\* sorted(keys, reverse=True)
RECURSIVE sorted_reverse(_)
sorted_reverse(S) ==
    IF S = {} THEN <<>>
    ELSE <<SetMax(S)>> \o sorted_reverse(S \ {SetMax(S)})

\* unique = [by_h[h] for h in sorted(by_h.keys(), reverse=True)]
select_unique(vfs) ==
    LET by_h == by_h_loop(vfs, <<>>)
        hs == sorted_reverse(DOMAIN by_h)
    IN [k \in 1..Len(hs) |-> by_h[hs[k]]]

\* label = f"{h}p" if h else "auto"; the button carries the format id as well
ButtonOf(f) == [height |-> HeightOf(f), fmtid |-> f.format_id]

\* ------------------------------------------------------------ try_extract_info
\* ydl_base_opts of handle_incoming_url; an options dict is the set of its keys
ydl_base_opts == {"quiet", "skip_download", "no_warnings"}

\* the list "attempts": base, impersonation, explicit headers, both
attempts_list ==
    LET base == ydl_base_opts
        impersonate_opts == base \cup {"extractor_args"}
        headers_opts == base \cup {"http_headers"}
        imp_headers == headers_opts \cup {"extractor_args"}
    IN <<base, impersonate_opts, headers_opts, imp_headers>>

\* the formats lists of the infos the extractor returns to the handler
InfoLists ==
    { <<Cand("a", Some(720), "avc1", Some(2048), None),
        Cand("i", Some(360), "none", Some(7000), None),
        Cand("d", Some(1080), "avc1", Some(3000), None)>>,
      <<Cand("h", None, "none", Some(500), Some(128000))>>,
      <<Cand("e", Some(1440), "avc1", Some(9000), None)>>,
      <<>> }

\* what ydl.extract_info returns when it does not raise: nothing (<<>>), or an
\* info dict, given as <<its formats list>>
Infos == {<<>>} \cup {<<fl>> : fl \in InfoLists}

EmptyInfo_unchecked(inf) == FALSE

\* "if not info: raise ExtractorError": whether an attempt that returned inf fails
EmptyInfo(inf) == inf = <<>>

\* uuid.uuid4().hex of the request
NewToken == "t1"

Emit(to, what, ok) == [to |-> to, what |-> what, ok |-> ok]

\* status = await message.reply_text("Fetching formats...")
Submit(ok) ==
    /\ hpc = "idle"
    /\ hlog' = Append(hlog, Emit("user", "fetching", ok))
    /\ hpc' = IF ok THEN "extracting" ELSE "crashed"
    /\ UNCHANGED <<tried, last_exc, raised, info, unique, kb>>
    /\ UNCHANGED <<svars, rvars, tvars, xvars>>

\* whether the loop of try_extract_info goes on after a failed attempt k
MoreAttempts(k) == k < Len(attempts_list)

\* one iteration of "for idx, opts in enumerate(attempts, start=1)": extract_info
\* raises, or returns inf
ExtractAttempt(raises, inf) ==
    /\ hpc = "extracting"
    /\ LET k == Len(tried) + 1
           failed == raises \/ EmptyInfo(inf)
       IN /\ tried' = Append(tried, [opts |-> attempts_list[k], ok |-> ~failed])
          /\ IF ~failed
             THEN /\ info' = inf
                  /\ hpc' = "got_info"
                  /\ UNCHANGED <<last_exc, raised>>
             ELSE /\ last_exc' = <<k>>
                  /\ UNCHANGED info
                  /\ IF MoreAttempts(k)
                     THEN UNCHANGED <<hpc, raised>>
                     ELSE /\ raised' = last_exc'
                          /\ hpc' = "fetch_failed"
    /\ UNCHANGED <<unique, kb, hlog>>
    /\ UNCHANGED <<svars, rvars, tvars, xvars>>

\* except Exception as e: edit_text("Error fetching formats"), send_log, return
ReportFetchFailed(ok) ==
    /\ hpc = "fetch_failed"
    /\ IF ok
       THEN /\ hlog' = hlog \o <<Emit("user", "err_fetch", TRUE),
                                 Emit("log", "err_fetch", TRUE)>>
            /\ hpc' = "done"
       ELSE /\ hlog' = Append(hlog, Emit("user", "err_fetch", FALSE))
            /\ hpc' = "unexpected"
    /\ UNCHANGED <<tried, last_exc, raised, info, unique, kb>>
    /\ UNCHANGED <<svars, rvars, tvars, xvars>>

\* lines 201-218: filter, selection, token and session
Select ==
    /\ hpc = "got_info"
    /\ LET vfs == video_formats(info[1])
       IN IF vfs = <<>>
          THEN /\ hpc' = "no_video"
               /\ UNCHANGED <<unique, SESS>>
          ELSE /\ unique' = select_unique(vfs)
               /\ SESS' = SESS \cup {NewToken}
               /\ hpc' = "show_kb"
    /\ UNCHANGED <<tried, last_exc, raised, info, kb, hlog>>
    /\ UNCHANGED <<cancelled, rvars, tvars, xvars>>

\* await status.edit_text("No video formats found."); return
NoVideo(ok) ==
    /\ hpc = "no_video"
    /\ hlog' = Append(hlog, Emit("user", "no_video", ok))
    /\ hpc' = IF ok THEN "done" ELSE "unexpected"
    /\ UNCHANGED <<tried, last_exc, raised, info, unique, kb>>
    /\ UNCHANGED <<svars, rvars, tvars, xvars>>

\* lines 219-226: one LEECH button per entry of unique, the Cancel button, the edit
ShowKeyboard(ok) ==
    /\ hpc = "show_kb"
    /\ hlog' = Append(hlog, Emit("user", "select", ok))
    /\ IF ok
       THEN /\ kb' = [shown |-> TRUE,
                      leech |-> [k \in 1..Len(unique) |-> ButtonOf(unique[k])]]
            /\ hpc' = "done"
       ELSE /\ hpc' = "unexpected"
            /\ UNCHANGED kb
    /\ UNCHANGED <<tried, last_exc, raised, info, unique>>
    /\ UNCHANGED <<svars, rvars, tvars, xvars>>

\* the outer "except Exception": edit_text("Error"), send_log
Unexpected(ok) ==
    /\ hpc = "unexpected"
    /\ IF ok
       THEN /\ hlog' = hlog \o <<Emit("user", "err_unexpected", TRUE),
                                 Emit("log", "err_unexpected", TRUE)>>
            /\ hpc' = "done"
       ELSE /\ hlog' = Append(hlog, Emit("user", "err_unexpected", FALSE))
            /\ hpc' = "crashed"
    /\ UNCHANGED <<tried, last_exc, raised, info, unique, kb>>
    /\ UNCHANGED <<svars, rvars, tvars, xvars>>

handle_incoming_url ==
    \/ \E ok \in BOOLEAN : Submit(ok)
    \/ \E raises \in BOOLEAN, inf \in Infos : ExtractAttempt(raises, inf)
    \/ \E ok \in BOOLEAN : ReportFetchFailed(ok)
    \/ Select
    \/ \E ok \in BOOLEAN : NoVideo(ok)
    \/ \E ok \in BOOLEAN : ShowKeyboard(ok)
    \/ \E ok \in BOOLEAN : Unexpected(ok)

HInit ==
    /\ hpc = "idle"
    /\ tried = <<>>
    /\ last_exc = <<>>
    /\ raised = <<>>
    /\ info = <<>>
    /\ unique = <<>>
    /\ kb = [shown |-> FALSE, leech |-> <<>>]
    /\ hlog = <<>>

SInit ==
    /\ SESS = {}
    /\ cancelled = {}

\* ------------------------------------------------------------ callback_handler
Runs == 1..MaxRuns

\* the slot of the next callback instance
FreeSlot(i) ==
    /\ rpc[i] = "none"
    /\ \A j \in Runs : j < i => rpc[j] # "none"

\* whether a LEECH callback carrying token t goes on to queue a run:
\* sess = SESS.get(token); if not sess: answer("Session expired"); return
SessionFound(t) == t \in SESS

\* a LEECH|token|fmtid callback up to its first await (lines 234-254)
LeechCallback(i, b) ==
    /\ kb.shown
    /\ b \in 1..Len(kb.leech)
    /\ FreeSlot(i)
    /\ rtoken' = [rtoken EXCEPT ![i] = NewToken]
    /\ rpc' = [rpc EXCEPT ![i] = IF SessionFound(NewToken) THEN "queued" ELSE "expired"]
    /\ UNCHANGED <<tmpdir, size, parts, idx, delivered, trace, stage>>
    /\ UNCHANGED <<hvars, svars, tvars, xvars>>

\* await reply_text("Queued"), await cq.answer("Queued"), then
\* asyncio.create_task(pipeline_task(...)); a failed reply ends the callback
QueuedReply(i, ok) ==
    /\ rpc[i] = "queued"
    /\ rpc' = [rpc EXCEPT ![i] = IF ok THEN "created" ELSE "cb_failed"]
    /\ UNCHANGED <<rtoken, tmpdir, size, parts, idx, delivered, trace, stage>>
    /\ UNCHANGED <<hvars, svars, tvars, xvars>>

\* a CANCEL|token callback: SESS.pop(token, None)
CancelCallback ==
    /\ kb.shown
    /\ SESS' = SESS \ {NewToken}
    /\ cancelled' = cancelled \cup (SESS \cap {NewToken})
    /\ UNCHANGED <<hvars, rvars, tvars, xvars>>

callback_handler ==
    \/ \E i \in Runs, b \in 1..MaxFormats : LeechCallback(i, b)
    \/ \E i \in Runs, ok \in BOOLEAN : QueuedReply(i, ok)
    \/ CancelCallback

\* --------------------------------------------------------------- pipeline_task
Ev(ev, what, n) == [ev |-> ev, what |-> what, n |-> n]
\* await edit_status(text)
Status(what, n) == Ev("status", what, n)
\* await send_log(text)
Log(what, n) == Ev("log", what, n)
\* an external operation handed to the executor or awaited
Op(what, n) == Ev("op", what, n)

\* sizes src_for_split.stat().st_size can have
Sizes == {PART_MAX_BYTES, PART_MAX_BYTES + 1}
\* values get_duration() returns; 0 stands for a failed or unparsable probe
Durations == {0, 60}

\* the positions at which the task exists and has not run its finally block
InFlight(i) ==
    rpc[i] \in {"created", "downloading", "reencoding", "probing", "striding", "uploading"}

\* what shutil.rmtree(tmpdir) leaves of the working directory
AfterRmtree(exists) == FALSE

Finally_keeps_dir(i) ==
    /\ UNCHANGED tmpdir
    /\ SESS' = SESS \ {rtoken[i]}
    /\ rpc' = [rpc EXCEPT ![i] = "terminated"]

\* finally: shutil.rmtree(tmpdir); SESS.pop(token, None)
Finally(i) ==
    /\ tmpdir' = [tmpdir EXCEPT ![i] = AfterRmtree(@)]
    /\ SESS' = SESS \ {rtoken[i]}
    /\ rpc' = [rpc EXCEPT ![i] = "terminated"]

Cleaned == Ev("cleanup", "rmtree", 0)

FailureReport_no_log(kind) == <<Status("fail_" \o kind, 0)>>

FailureReport_then_upload(kind) ==
    <<Status("fail_" \o kind, 0), Log("fail_" \o kind, 0), Status("uploading_part", 1),
      Op("upload", 1)>>

\* what the except branch of a stage does: one status edit, one log message, return
FailureReport(kind) == <<Status("fail_" \o kind, 0), Log("fail_" \o kind, 0)>>

\* except Exception as exc: app.send_message(...), send_log(...)
UnhandledReport == <<Ev("message", "fail_pipeline", 0), Log("fail_pipeline", 0)>>

Fail_restarts(i, kind) ==
    /\ trace' = [trace EXCEPT ![i] = <<>>]
    /\ stage' = [stage EXCEPT ![i] = "none"]
    /\ tmpdir' = [tmpdir EXCEPT ![i] = FALSE]
    /\ rpc' = [rpc EXCEPT ![i] = "created"]
    /\ UNCHANGED SESS

\* a stage failed: report, return, finally
Fail(i, kind) ==
    /\ trace' = [trace EXCEPT ![i] = Append(@ \o FailureReport(kind), Cleaned)]
    /\ stage' = [stage EXCEPT ![i] = "Failed"]
    /\ Finally(i)

\* RuntimeError(f"ffmpeg split failed at start {start}: ...") of stride k (line 511)
StrideError(k) == Ev("raise", "split_stride", k)

FailStride_retries(i, k) ==
    /\ trace' = [trace EXCEPT ![i] = Append(Append(@, StrideError(k)), Op("split_stride", k))]
    /\ UNCHANGED <<stage, tmpdir, SESS, rpc>>

\* split_mp4_by_time raised at stride k: the except branch of the split (lines
\* 385-389) reports the error, return, finally
FailStride(i, k) ==
    /\ trace' = [trace EXCEPT ![i] =
                    Append(Append(@, StrideError(k)) \o FailureReport("split"), Cleaned)]
    /\ stage' = [stage EXCEPT ![i] = "Failed"]
    /\ Finally(i)

\* an exception no stage catches: the outer except, finally
Unhandled(i) ==
    /\ trace' = [trace EXCEPT ![i] = Append(@ \o UnhandledReport, Cleaned)]
    /\ stage' = [stage EXCEPT ![i] = "Failed"]
    /\ Finally(i)

\* lines 261-322: mkdtemp, hooks and options, run_ydl handed to the executor
Begin(i) ==
    /\ rpc[i] = "created"
    /\ tmpdir' = [tmpdir EXCEPT ![i] = TRUE]
    /\ stage' = [stage EXCEPT ![i] = "Downloading"]
    /\ trace' = [trace EXCEPT ![i] = Append(@, Op("download", 0))]
    /\ rpc' = [rpc EXCEPT ![i] = "downloading"]
    /\ UNCHANGED <<rtoken, size, parts, idx, delivered>>
    /\ UNCHANGED <<hvars, svars, tvars, xvars>>

\* what run_ydl can do: raise, return leaving no file, return leaving a file
DownloadOutcomes == {"error", "nofile", "file"}

\* lines 341-371 after the download: the try block of the remux raises at the
\* unpacking of None (line 348) before remux() is handed to the executor, so the
\* except branch runs and reencode() is handed to the executor
NormalizeSteps ==
    <<Status("remuxing", 0), Status("remux_failed_reencoding", 0), Op("reencode", 0)>>

\* run_ydl returned or raised (lines 322-371)
DownloadReturns(i, out) ==
    /\ rpc[i] = "downloading"
    /\ IF out = "error" THEN Fail(i, "download")
       ELSE IF out = "nofile" THEN Fail(i, "nofile")
       ELSE /\ trace' = [trace EXCEPT ![i] =
                            Append(@, Status("download_complete", 0)) \o NormalizeSteps]
            /\ stage' = [stage EXCEPT ![i] = "Normalizing"]
            /\ rpc' = [rpc EXCEPT ![i] = "reencoding"]
            /\ UNCHANGED <<tmpdir, SESS>>
    /\ UNCHANGED <<rtoken, size, parts, idx, delivered>>
    /\ UNCHANGED <<hvars, cancelled, tvars, sp>>

\* what reencode() can do: raise, exit 0 leaving the file, exit 0 leaving no file
ReencodeOutcomes == {"error", "ok", "missing"}

\* "if size > PART_MAX_BYTES" (line 381)
NeedsSplit(sz) == sz > PART_MAX_BYTES

\* the first lines of the upload loop for part k: status edit, send_video awaited
StartUpload(k) == <<Status("uploading_part", k), Op("upload", k)>>

\* downloaded = files[0], the file yt-dlp left in the working directory
downloaded == "downloaded"
\* remuxed = tmpdir / f"{downloaded.stem}.streamable.mp4"; line 356, which assigns
\* it to src_for_split, is never reached
remuxed == "streamable"
\* reenc = tmpdir / f"{downloaded.stem}.reenc.mp4"
reenc == "reenc"

src_for_split_kept == downloaded

\* src_for_split after reencode() returned: "src_for_split = reenc" (line 372)
\* replaces "src_for_split = downloaded" (line 340)
src_for_split == reenc

\* size = src_for_split.stat().st_size (line 380): the file the split decision,
\* the splitter and the upload are given
StatSource == Ev("stat", src_for_split, 0)

\* reencode() returned or raised (lines 371-396, into split_mp4_by_time to line 483)
ReencodeReturns(i, out, sz) ==
    /\ rpc[i] = "reencoding"
    /\ IF out = "error"
       THEN /\ Fail(i, "normalize")
            /\ UNCHANGED <<size, parts, idx>>
       ELSE IF out = "missing"
       THEN \* src_for_split.stat() raises
            /\ Unhandled(i)
            /\ UNCHANGED <<size, parts, idx>>
       ELSE /\ size' = [size EXCEPT ![i] = sz]
            /\ UNCHANGED <<tmpdir, SESS>>
            /\ IF NeedsSplit(sz)
               THEN /\ trace' = [trace EXCEPT ![i] =
                                    Append(@, StatSource)
                                        \o <<Status("splitting", 0), Op("probe", 0)>>]
                    /\ stage' = [stage EXCEPT ![i] = "Splitting"]
                    /\ rpc' = [rpc EXCEPT ![i] = "probing"]
                    /\ UNCHANGED <<parts, idx>>
               ELSE /\ parts' = [parts EXCEPT ![i] = 1]
                    /\ idx' = [idx EXCEPT ![i] = 1]
                    /\ trace' = [trace EXCEPT ![i] = Append(@, StatSource) \o StartUpload(1)]
                    /\ stage' = [stage EXCEPT ![i] = "Uploading"]
                    /\ rpc' = [rpc EXCEPT ![i] = "uploading"]
    /\ UNCHANGED <<rtoken, delivered>>
    /\ UNCHANGED <<hvars, cancelled, tvars, sp>>

\* split_mp4_by_time: get_duration() returned d (lines 483-509); with d > 0 the
\* range of strides is not empty and the first stride is run
ProbeReturns(i, d) ==
    /\ rpc[i] = "probing"
    /\ IF d <= 0
       THEN /\ Fail(i, "split")
            /\ UNCHANGED idx
       ELSE /\ idx' = [idx EXCEPT ![i] = 1]
            /\ trace' = [trace EXCEPT ![i] = Append(@, Op("split_stride", 1))]
            /\ rpc' = [rpc EXCEPT ![i] = "striding"]
            /\ UNCHANGED <<stage, tmpdir, SESS>>
    /\ UNCHANGED <<rtoken, size, parts, delivered>>
    /\ UNCHANGED <<hvars, cancelled, tvars, sp>>

\* split_mp4_by_time: run_cmd of stride idx returned rc; more says whether
\* range(0, total_secs, seg_secs) holds a further start. After the last stride the
\* size check of the parts, then the upload loop starts (lines 509-517, 394-431)
StrideReturns(i, rc, more, oversize) ==
    /\ rpc[i] = "striding"
    /\ IF rc # 0
       THEN /\ FailStride(i, idx[i])
            /\ UNCHANGED <<parts, idx>>
       ELSE IF more /\ idx[i] < MaxParts
       THEN /\ idx' = [idx EXCEPT ![i] = @ + 1]
            /\ trace' = [trace EXCEPT ![i] = Append(@, Op("split_stride", idx[i] + 1))]
            /\ UNCHANGED <<rpc, stage, parts, tmpdir, SESS>>
       ELSE IF oversize
       THEN /\ Fail(i, "split")
            /\ UNCHANGED <<parts, idx>>
       ELSE /\ parts' = [parts EXCEPT ![i] = idx[i]]
            /\ idx' = [idx EXCEPT ![i] = 1]
            /\ trace' = [trace EXCEPT ![i] = @ \o StartUpload(1)]
            /\ stage' = [stage EXCEPT ![i] = "Uploading"]
            /\ rpc' = [rpc EXCEPT ![i] = "uploading"]
            /\ UNCHANGED <<tmpdir, SESS>>
    /\ UNCHANGED <<rtoken, size, delivered>>
    /\ UNCHANGED <<hvars, cancelled, tvars, sp>>

MoreParts_skip_last(i, k) == k + 1 < parts[i]

\* whether the upload loop goes on to a next part after part k was sent
MoreParts(i, k) == k < parts[i]

UploadFailed_continue(i) ==
    /\ UNCHANGED delivered
    /\ IF MoreParts(i, idx[i])
       THEN /\ idx' = [idx EXCEPT ![i] = @ + 1]
            /\ trace' = [trace EXCEPT ![i] =
                            @ \o FailureReport("upload") \o StartUpload(idx[i] + 1)]
            /\ UNCHANGED <<rpc, stage, tmpdir, SESS>>
       ELSE /\ Fail(i, "upload")
            /\ UNCHANGED idx

\* except Exception of the upload (lines 436-443): report, return
UploadFailed(i) ==
    /\ Fail(i, "upload")
    /\ UNCHANGED <<idx, delivered>>

\* send_video of part idx returned or raised (lines 430-446, then finally)
UploadReturns(i, ok) ==
    /\ rpc[i] = "uploading"
    /\ IF ~ok
       THEN UploadFailed(i)
       ELSE /\ delivered' = [delivered EXCEPT ![i] = Append(@, idx[i])]
            /\ IF MoreParts(i, idx[i])
               THEN /\ idx' = [idx EXCEPT ![i] = @ + 1]
                    /\ trace' = [trace EXCEPT ![i] =
                                    Append(@, Log("uploaded_part", idx[i]))
                                        \o StartUpload(idx[i] + 1)]
                    /\ UNCHANGED <<rpc, stage, tmpdir, SESS>>
               ELSE /\ trace' = [trace EXCEPT ![i] =
                                    @ \o <<Log("uploaded_part", idx[i]),
                                           Status("all_done", parts[i]),
                                           Log("completed", parts[i]),
                                           Cleaned>>]
                    /\ stage' = [stage EXCEPT ![i] = "Done"]
                    /\ Finally(i)
                    /\ UNCHANGED idx
    /\ UNCHANGED <<rtoken, size, parts>>
    /\ UNCHANGED <<hvars, cancelled, tvars, sp>>

pipeline_task ==
    \/ \E i \in Runs : Begin(i)
    \/ \E i \in Runs, out \in DownloadOutcomes : DownloadReturns(i, out)
    \/ \E i \in Runs, out \in ReencodeOutcomes, sz \in Sizes : ReencodeReturns(i, out, sz)
    \/ \E i \in Runs, d \in Durations : ProbeReturns(i, d)
    \/ \E i \in Runs, rc \in {0, 1}, more \in BOOLEAN, oversize \in BOOLEAN :
            StrideReturns(i, rc, more, oversize)
    \/ \E i \in Runs, ok \in BOOLEAN : UploadReturns(i, ok)

RInit ==
    /\ rpc = [i \in Runs |-> "none"]
    /\ rtoken = [i \in Runs |-> ""]
    /\ tmpdir = [i \in Runs |-> FALSE]
    /\ size = [i \in Runs |-> 0]
    /\ parts = [i \in Runs |-> 0]
    /\ idx = [i \in Runs |-> 0]
    /\ delivered = [i \in Runs |-> <<>>]
    /\ trace = [i \in Runs |-> <<>>]
    /\ stage = [i \in Runs |-> "none"]

\* ------------------------------------------------------------ split_mp4_by_time
\* "p.stat().st_size > max_bytes + 1024 * 1024": the slack of the size check
PART_SLACK_BYTES == 1048576
\* the least stride: seg_secs = max(5, ...)
MIN_SEG_SECS == 5

\* the arguments of the calls: max_bytes and the size of src
SplitMaxBytes == {100}
SplitSizes == {0, 99, 100, 101, 150, 400}
\* values get_duration() returns, in halves of a second; 0 is what it returns for
\* a failed or unparsable probe
SplitDurations == {-3, 0, 1, 25, MaxHalfSecs}
\* the slack of the size check in the unit the sizes of the call are given in
\* (bytes, or words of sp.unit bytes where a size in bytes exceeds 2^31 - 1)
SlackOfCall == PART_SLACK_BYTES \div sp.unit
\* sizes of the file a stride leaves, for a size limit of max_bytes
StrideSizes(max_bytes) ==
    {1, max_bytes, max_bytes + SlackOfCall, max_bytes + SlackOfCall + 1}

Max(a, b) == IF a >= b THEN a ELSE b

WithinBudget_strict(sz, max_bytes) == sz < max_bytes

\* "if size <= max_bytes: return [src]"
WithinBudget(sz, max_bytes) == sz <= max_bytes

DurationUnknown_only_negative(dh) == dh < 0

\* "if duration <= 0: raise RuntimeError"
DurationUnknown(dh) == dh <= 0

\* quotient q and remainder r of a * b by c, for a, b >= 0 and 0 < c <= 2^30,
\* computed by doubling so that no intermediate value exceeds 2^31 - 1
RECURSIVE MulDivMod(_, _, _)
MulDivMod(a, b, c) ==
    IF b = 0 THEN [q |-> 0, r |-> 0]
    ELSE LET h == MulDivMod(a, b \div 2, c)
             dq == IF 2 * h.r >= c THEN 2 * h.q + 1 ELSE 2 * h.q
             dr == IF 2 * h.r >= c THEN 2 * h.r - c ELSE 2 * h.r
             sr == dr + (a % c)
         IN IF b % 2 = 0 THEN [q |-> dq, r |-> dr]
            ELSE IF sr >= c THEN [q |-> dq + (a \div c) + 1, r |-> sr - c]
                 ELSE [q |-> dq + (a \div c), r |-> sr]

\* floor(max_bytes / (size / duration)) = floor(max_bytes * duration / size) for a
\* duration of dh halves of a second
SegQuotient_rounded_up(sz, dh, max_bytes) ==
    IF dh % 2 = 0 THEN MulDivMod(max_bytes, dh \div 2, sz).q + 1
    ELSE MulDivMod(max_bytes, dh, 2 * sz).q + 1

SegQuotient(sz, dh, max_bytes) ==
    IF dh % 2 = 0 THEN MulDivMod(max_bytes, dh \div 2, sz).q
    ELSE MulDivMod(max_bytes, dh, 2 * sz).q

seg_secs_unclamped(sz, dh, max_bytes) == SegQuotient(sz, dh, max_bytes)

seg_secs_with_default(sz, dh, max_bytes) ==
    IF SegQuotient(sz, dh, max_bytes) <= 0 THEN 10
    ELSE Max(MIN_SEG_SECS, SegQuotient(sz, dh, max_bytes))

\* bytes_per_sec = size / duration; seg_secs = max(5, int(floor(max_bytes /
\* bytes_per_sec))), for a duration of dh halves of a second; the branch
\* "if seg_secs <= 0" is never taken after the max
seg_secs_of(sz, dh, max_bytes) == Max(MIN_SEG_SECS, SegQuotient(sz, dh, max_bytes))

\* total_secs = int(math.ceil(duration))
total_secs_of(dh) == (dh + 1) \div 2

\* whether range(0, total_secs, seg_secs) holds the start "start"
InRange(start, total_secs) == start < total_secs

Oversized_unchecked(psize, max_bytes) == FALSE

\* "if p.stat().st_size > max_bytes + 1024 * 1024: raise RuntimeError"
Oversized(psize, max_bytes) == psize > max_bytes + SlackOfCall

\* no call of split_mp4_by_time
NoSplit ==
    [pc |-> "idle", unit |-> 1, size |-> 0, max_bytes |-> 0, duration |-> None,
     seg_secs |-> 0, total_secs |-> 0, start |-> 0, probes |-> 0, strides |-> <<>>,
     result |-> <<>>]

\* split_mp4_by_time(src, dest_dir, max_bytes) up to the probe (lines 462-483)
SplitCall(sz, max_bytes) ==
    /\ sp.pc = "idle"
    /\ sp' = IF WithinBudget(sz, max_bytes)
             THEN [sp EXCEPT !.pc = "returned", !.size = sz, !.max_bytes = max_bytes,
                             !.result = <<"src">>]
             ELSE [sp EXCEPT !.pc = "probing", !.size = sz, !.max_bytes = max_bytes,
                             !.probes = @ + 1]
    /\ UNCHANGED <<hvars, svars, rvars, tvars>>

\* get_duration() returned dh (lines 483-492)
SplitProbe(dh) ==
    /\ sp.pc = "probing"
    /\ sp' = IF DurationUnknown(dh)
             THEN [sp EXCEPT !.pc = "raised", !.duration = Some(dh)]
             ELSE LET total == total_secs_of(dh)
                  IN [sp EXCEPT !.duration = Some(dh),
                                !.seg_secs = seg_secs_of(sp.size, dh, sp.max_bytes),
                                !.total_secs = total,
                                !.start = 0,
                                !.pc = IF InRange(0, total) THEN "striding" ELSE "checking"]
    /\ UNCHANGED <<hvars, svars, rvars, tvars>>

\* one iteration of "for start in range(0, total_secs, seg_secs)": run_cmd exits
\* with rc and leaves a file of psize bytes (lines 493-509)
SplitStride(rc, psize) ==
    /\ sp.pc = "striding"
    /\ LET idx_ == Len(sp.strides) + 1
           made == Append(sp.strides, [idx |-> idx_, rc |-> rc, ss |-> sp.start,
                                       t |-> sp.seg_secs, size |-> psize])
           next == sp.start + sp.seg_secs
       IN sp' = IF rc # 0
                THEN [sp EXCEPT !.pc = "raised", !.strides = made]
                ELSE [sp EXCEPT !.strides = made,
                                !.start = next,
                                !.pc = IF InRange(next, sp.total_secs)
                                       THEN "striding" ELSE "checking"]
    /\ UNCHANGED <<hvars, svars, rvars, tvars>>

\* the size check of the parts and the return (lines 510-517)
SplitCheck ==
    /\ sp.pc = "checking"
    /\ sp' = IF \E k \in 1..Len(sp.strides) : Oversized(sp.strides[k].size, sp.max_bytes)
             THEN [sp EXCEPT !.pc = "raised"]
             ELSE [sp EXCEPT !.pc = "returned", !.result = sp.strides]
    /\ UNCHANGED <<hvars, svars, rvars, tvars>>

split_mp4_by_time ==
    \/ \E sz \in SplitSizes, max_bytes \in SplitMaxBytes : SplitCall(sz, max_bytes)
    \/ \E dh \in SplitDurations : SplitProbe(dh)
    \/ \E rc \in {0, 1}, psize \in StrideSizes(sp.max_bytes) : SplitStride(rc, psize)
    \/ SplitCheck

\* --------------------------------------------------------------------- Throttler
\* key = f"dl:{token}" of ytdl_hook
dl_key(token) == "dl:" \o token
\* last_key = f"upl:{token}:{part.name}" of the upload loop
upl_key(token, name) == "upl:" \o token \o ":" \o name

\* the keys the hooks of the runs of the request use
Keys == {dl_key(NewToken), upl_key(NewToken, "part01")}

\* self._last.get(key, 0.0)
LastGet(key) == IF key \in DOMAIN last THEN last[key] ELSE 0

LastSet_dropped(key, t) == last

\* self._last[key] = t
LastSet(key, t) == [k \in DOMAIN last \cup {key} |-> IF k = key THEN t ELSE last[k]]

\* "if now - last >= self.interval"
Admits(t, l) == t - l >= PROGRESS_INTERVAL

Call(key, t, res) == [key |-> key, at |-> t, res |-> res]

\* the monotonic clock advances
Tick ==
    /\ now < MaxTime
    /\ now' = now + 1
    /\ UNCHANGED <<last, calls, tpc, tkey, tnow, tlast>>
    /\ UNCHANGED <<hvars, svars, rvars, xvars>>

\* Throttler.should(key), run without interruption
should(key) ==
    /\ Len(calls) < MaxCalls
    /\ LET res == Admits(now, LastGet(key))
       IN /\ last' = IF res THEN LastSet(key, now) ELSE last
          /\ calls' = Append(calls, Call(key, now, res))
    /\ UNCHANGED <<now, tpc, tkey, tnow, tlast>>
    /\ UNCHANGED <<hvars, svars, rvars, xvars>>

TInit ==
    /\ now = 0
    /\ last = <<>>
    /\ calls = <<>>
    /\ tpc = [w \in {1, 2} |-> "idle"]
    /\ tkey = [w \in {1, 2} |-> ""]
    /\ tnow = [w \in {1, 2} |-> 0]
    /\ tlast = [w \in {1, 2} |-> 0]

\* ------------------------------------------------------- the bot: one request
XInit == sp = NoSplit

Init == HInit /\ SInit /\ RInit /\ TInit /\ XInit

Next ==
    \/ handle_incoming_url
    \/ callback_handler
    \/ pipeline_task

Spec == Init /\ [][Next]_vars

\* ------------------------------------- the throttler, calls made one at a time
ThrNext ==
    \/ Tick
    \/ \E key \in Keys : should(key)

SpecThr == Init /\ [][ThrNext]_vars

\* ---------------------------- the selection step on every list of candidates
RECURSIVE SeqsUpTo(_, _)
SeqsUpTo(S, n) ==
    IF n = 0 THEN {<<>>}
    ELSE LET shorter == SeqsUpTo(S, n - 1)
         IN shorter \cup {Append(q, x) : q \in shorter, x \in S}

\* handle_incoming_url when the first extractor attempt returned an info dict
SelInit ==
    /\ hpc = "got_info"
    /\ tried = <<[opts |-> attempts_list[1], ok |-> TRUE]>>
    /\ last_exc = <<>>
    /\ raised = <<>>
    /\ info \in {<<fl>> : fl \in SeqsUpTo(Candidates, MaxFormats)}
    /\ unique = <<>>
    /\ kb = [shown |-> FALSE, leech |-> <<>>]
    /\ hlog = <<Emit("user", "fetching", TRUE)>>
    /\ SInit /\ RInit /\ TInit /\ XInit

SelNext ==
    \/ Select
    \/ \E ok \in BOOLEAN : NoVideo(ok)
    \/ \E ok \in BOOLEAN : ShowKeyboard(ok)
    \/ \E ok \in BOOLEAN : Unexpected(ok)

SpecSel == SelInit /\ [][SelNext]_vars

\* --------------- the throttler called from the executor threads of two runs
\* Two LEECH callbacks of the request were queued and both pipeline tasks are in
\* their download: the state of the request then
RaceStart ==
    /\ hpc = "done"
    /\ tried = <<[opts |-> attempts_list[1], ok |-> TRUE]>>
    /\ last_exc = <<>>
    /\ raised = <<>>
    /\ info = <<<<Cand("a", Some(720), "avc1", Some(2048), None),
                  Cand("i", Some(360), "none", Some(7000), None),
                  Cand("d", Some(1080), "avc1", Some(3000), None)>>>>
    /\ unique = <<Cand("d", Some(1080), "avc1", Some(3000), None),
                  Cand("a", Some(720), "avc1", Some(2048), None)>>
    /\ kb = [shown |-> TRUE, leech |-> <<[height |-> 1080, fmtid |-> "d"],
                                         [height |-> 720, fmtid |-> "a"]>>]
    /\ hlog = <<Emit("user", "fetching", TRUE), Emit("user", "select", TRUE)>>
    /\ SESS = {NewToken}
    /\ cancelled = {}
    /\ rpc = [i \in Runs |-> IF i <= 2 THEN "downloading" ELSE "none"]
    /\ rtoken = [i \in Runs |-> IF i <= 2 THEN NewToken ELSE ""]
    /\ tmpdir = [i \in Runs |-> i <= 2]
    /\ size = [i \in Runs |-> 0]
    /\ parts = [i \in Runs |-> 0]
    /\ idx = [i \in Runs |-> 0]
    /\ delivered = [i \in Runs |-> <<>>]
    /\ trace = [i \in Runs |-> IF i <= 2 THEN <<Op("download", 0)>> ELSE <<>>]
    /\ stage = [i \in Runs |-> IF i <= 2 THEN "Downloading" ELSE "none"]

RaceInit == RaceStart /\ TInit /\ XInit

\* calls that have started and not returned
Running == {w \in {1, 2} : tpc[w] # "idle"}

\* ytdl_hook of run w, in the executor thread of its download: key = f"dl:{token}",
\* throttler.should(key) up to "now = time.monotonic()"
HookReadsClock(w) ==
    /\ rpc[w] = "downloading"
    /\ tpc[w] = "idle"
    /\ Len(calls) + Cardinality(Running) < MaxCalls
    /\ tkey' = [tkey EXCEPT ![w] = dl_key(rtoken[w])]
    /\ tnow' = [tnow EXCEPT ![w] = now]
    /\ tpc' = [tpc EXCEPT ![w] = "has_now"]
    /\ UNCHANGED <<now, last, calls, tlast>>
    /\ UNCHANGED <<hvars, svars, rvars, xvars>>

\* "last = self._last.get(key, 0.0)" in the thread of run w
HookReadsLast(w) ==
    /\ tpc[w] = "has_now"
    /\ tlast' = [tlast EXCEPT ![w] = LastGet(tkey[w])]
    /\ tpc' = [tpc EXCEPT ![w] = "has_last"]
    /\ UNCHANGED <<now, last, calls, tkey, tnow>>
    /\ UNCHANGED <<hvars, svars, rvars, xvars>>

\* the test, the write of the timestamp and the return, in the thread of run w
HookDecides(w) ==
    /\ tpc[w] = "has_last"
    /\ LET res == Admits(tnow[w], tlast[w])
       IN /\ last' = IF res THEN LastSet(tkey[w], tnow[w]) ELSE last
          /\ calls' = Append(calls, Call(tkey[w], tnow[w], res))
    /\ tpc' = [tpc EXCEPT ![w] = "idle"]
    /\ UNCHANGED <<now, tkey, tnow, tlast>>
    /\ UNCHANGED <<hvars, svars, rvars, xvars>>

RaceNext ==
    \/ Tick
    \/ \E w \in {1, 2} : HookReadsClock(w)
    \/ \E w \in {1, 2} : HookReadsLast(w)
    \/ \E w \in {1, 2} : HookDecides(w)

SpecRace == RaceInit /\ [][RaceNext]_vars

\* ------------------------------- CANCEL callbacks while pipeline tasks are in flight
\* Two LEECH callbacks of the request have created their pipeline tasks, the
\* session is still in SESS: the state of the request then
CancelStart ==
    /\ hpc = "done"
    /\ tried = <<[opts |-> attempts_list[1], ok |-> TRUE]>>
    /\ last_exc = <<>>
    /\ raised = <<>>
    /\ info = <<<<Cand("a", Some(720), "avc1", Some(2048), None),
                  Cand("i", Some(360), "none", Some(7000), None),
                  Cand("d", Some(1080), "avc1", Some(3000), None)>>>>
    /\ unique = <<Cand("d", Some(1080), "avc1", Some(3000), None),
                  Cand("a", Some(720), "avc1", Some(2048), None)>>
    /\ kb = [shown |-> TRUE, leech |-> <<[height |-> 1080, fmtid |-> "d"],
                                         [height |-> 720, fmtid |-> "a"]>>]
    /\ hlog = <<Emit("user", "fetching", TRUE), Emit("user", "select", TRUE)>>
    /\ SESS = {NewToken}
    /\ cancelled = {}
    /\ rpc = [i \in Runs |-> IF i <= 2 THEN "created" ELSE "none"]
    /\ rtoken = [i \in Runs |-> IF i <= 2 THEN NewToken ELSE ""]
    /\ tmpdir = [i \in Runs |-> FALSE]
    /\ size = [i \in Runs |-> 0]
    /\ parts = [i \in Runs |-> 0]
    /\ idx = [i \in Runs |-> 0]
    /\ delivered = [i \in Runs |-> <<>>]
    /\ trace = [i \in Runs |-> <<>>]
    /\ stage = [i \in Runs |-> "none"]

CancelInit == CancelStart /\ TInit /\ XInit

\* no further LEECH callback arrives: every run is in flight before any CANCEL
CancelNext ==
    \/ CancelCallback
    \/ pipeline_task

SpecCancel == CancelInit /\ [][CancelNext]_vars

\* ----------------------------------------- split_mp4_by_time called on its own
SpecSplit == Init /\ [][split_mp4_by_time]_vars

\* ------------------------------------------------ every awaited call returns
\* the steps of the task of run i
RunStep(i) ==
    \/ Begin(i)
    \/ \E out \in DownloadOutcomes : DownloadReturns(i, out)
    \/ \E out \in ReencodeOutcomes, sz \in Sizes : ReencodeReturns(i, out, sz)
    \/ \E d \in Durations : ProbeReturns(i, d)
    \/ \E rc \in {0, 1}, more \in BOOLEAN, oversize \in BOOLEAN :
           StrideReturns(i, rc, more, oversize)
    \/ \E ok \in BOOLEAN : UploadReturns(i, ok)

\* asyncio runs a task that is ready, and every executor call, subprocess and
\* client call a task awaits returns or raises
EveryAwaitReturns == \A i \in Runs : WF_vars(RunStep(i))

SpecLive == CancelInit /\ [][CancelNext]_vars /\ EveryAwaitReturns

\* split_mp4_by_time with every probe and every stride returning
SpecSplitLive == SpecSplit /\ WF_vars(split_mp4_by_time)

\* ------------------------------- progress edits handed to the event loop
\* one LEECH callback was answered: one run exists and has not started
SinkStart ==
    /\ hpc = "done"
    /\ tried = <<[opts |-> attempts_list[1], ok |-> TRUE]>>
    /\ last_exc = <<>>
    /\ raised = <<>>
    /\ info = <<<<Cand("a", Some(720), "avc1", Some(2048), None),
                  Cand("i", Some(360), "none", Some(7000), None),
                  Cand("d", Some(1080), "avc1", Some(3000), None)>>>>
    /\ unique = <<Cand("d", Some(1080), "avc1", Some(3000), None),
                  Cand("a", Some(720), "avc1", Some(2048), None)>>
    /\ kb = [shown |-> TRUE, leech |-> <<[height |-> 1080, fmtid |-> "d"],
                                         [height |-> 720, fmtid |-> "a"]>>]
    /\ hlog = <<Emit("user", "fetching", TRUE), Emit("user", "select", TRUE)>>
    /\ SESS = {NewToken}
    /\ cancelled = {}
    /\ rpc = [i \in Runs |-> IF i = 1 THEN "created" ELSE "none"]
    /\ rtoken = [i \in Runs |-> IF i = 1 THEN NewToken ELSE ""]
    /\ tmpdir = [i \in Runs |-> FALSE]
    /\ size = [i \in Runs |-> 0]
    /\ parts = [i \in Runs |-> 0]
    /\ idx = [i \in Runs |-> 0]
    /\ delivered = [i \in Runs |-> <<>>]
    /\ trace = [i \in Runs |-> <<>>]
    /\ stage = [i \in Runs |-> "none"]

SinkInit == SinkStart /\ TInit /\ XInit

\* loop.call_soon_threadsafe(asyncio.create_task, edit_status(txt)) of a hook
Handoff == Ev("handoff", "progress", 0)
\* app.edit_message_text of such a task has returned
Progress == Status("progress", 0)
\* the edit tasks of run i that were handed to the loop and have not finished
PendingEdits(i) ==
    Cardinality({k \in 1..Len(trace[i]) : trace[i][k] = Handoff})
        - Cardinality({k \in 1..Len(trace[i]) : trace[i][k] = Progress})

\* ytdl_hook or upl_progress_cb, called in the worker thread of the download or
\* by the client during the upload, passed the throttler and hands the edit of
\* the status message to the event loop (lines 286-297, 411-422)
HookHandsOff(i) ==
    /\ rpc[i] \in {"downloading", "uploading"}
    /\ Cardinality({k \in 1..Len(trace[i]) : trace[i][k] = Handoff}) < MaxEdits
    /\ trace' = [trace EXCEPT ![i] = Append(@, Handoff)]
    /\ UNCHANGED <<SESS, cancelled, rpc, rtoken, tmpdir, size, parts, idx, delivered, stage>>
    /\ UNCHANGED <<hvars, tvars, xvars>>

\* the task of a handed-off edit runs to the end of edit_status (lines 264-272):
\* nothing orders it with the awaits of pipeline_task, and the end of
\* pipeline_task does not cancel it
EditTaskDelivers(i) ==
    /\ PendingEdits(i) > 0
    /\ trace' = [trace EXCEPT ![i] = Append(@, Progress)]
    /\ UNCHANGED <<SESS, cancelled, rpc, rtoken, tmpdir, size, parts, idx, delivered, stage>>
    /\ UNCHANGED <<hvars, tvars, xvars>>

SinkNext ==
    \/ pipeline_task
    \/ \E i \in Runs : HookHandsOff(i)
    \/ \E i \in Runs : EditTaskDelivers(i)

SpecSink == SinkInit /\ [][SinkNext]_vars

\* ------------------- split_mp4_by_time on a source of 4 GiB and 3600 seconds
\* sizes in words of 4 bytes: 4 GiB and PART_MAX_BYTES are multiples of 4
ScenarioB ==
    [unit |-> 4, size |-> 1073741824, max_bytes |-> PART_MAX_BYTES \div 4, dh |-> 7200]

\* the sizes and durations of the calls: the source of 4 GiB and one of max_bytes,
\* the duration of 3600 seconds, one a second shorter and a failed probe
ScenarioSizes == {ScenarioB.size, ScenarioB.max_bytes}
ScenarioDurations == {ScenarioB.dh, ScenarioB.dh - 2, 0}

ScenarioInit ==
    /\ HInit /\ SInit /\ RInit /\ TInit
    /\ sp = [NoSplit EXCEPT !.unit = ScenarioB.unit]

ScenarioNext ==
    \/ \E sz \in ScenarioSizes : SplitCall(sz, ScenarioB.max_bytes)
    \/ \E dh \in ScenarioDurations : SplitProbe(dh)
    \/ \E rc \in {0, 1}, psize \in StrideSizes(sp.max_bytes) : SplitStride(rc, psize)
    \/ SplitCheck

SpecScenario == ScenarioInit /\ [][ScenarioNext]_vars

\* ===================================================================== claims
\* events of the trace of run i that satisfy Test
EventsOf(i, Test(_)) == SelectSeq(trace[i], Test)
IsUpload(e) == e.ev = "op" /\ e.what = "upload"
IsUserFailure(e) ==
    /\ e.ev \in {"status", "message"}
    /\ e.what \in {"fail_download", "fail_nofile", "fail_normalize", "fail_split",
                   "fail_upload", "fail_pipeline"}
IsLogFailure(e) ==
    /\ e.ev = "log"
    /\ e.what \in {"fail_download", "fail_nofile", "fail_normalize", "fail_split",
                   "fail_upload", "fail_pipeline"}
\* positions of the trace of run i that satisfy Test
PositionsOf(i, Test(_)) == {k \in 1..Len(trace[i]) : Test(trace[i][k])}
Terminated(i) == rpc[i] = "terminated"
\* the sequence 1, 2, ..., n
UpTo(n) == [k \in 1..n |-> k]

C2_OneRunPerToken ==
    \A i, j \in Runs : (InFlight(i) /\ InFlight(j) /\ rtoken[i] = rtoken[j]) => i = j

\* C3: within one run the parts are uploaded in increasing order, part k+1 is
\* started only after the upload of part k returned normally, and after a failed
\* upload no further part is attempted, no delivered part is sent again and the
\* run is Failed.
C3_SequentialUpload ==
    \A i \in Runs :
        LET ups == EventsOf(i, IsUpload)
            failed == PositionsOf(i, LAMBDA e : e = Status("fail_upload", 0))
        IN /\ [k \in 1..Len(ups) |-> ups[k].n] = UpTo(Len(ups))
           /\ Len(ups) <= parts[i]
           /\ IF rpc[i] = "uploading" \/ failed # {}
              THEN delivered[i] = UpTo(Len(ups) - 1)
              ELSE delivered[i] = UpTo(Len(ups))
           /\ \A k \in 2..Len(ups) :
                \E p \in PositionsOf(i, LAMBDA e : e = Log("uploaded_part", k - 1)) :
                    \A q \in PositionsOf(i, LAMBDA e : e = Op("upload", k)) : p < q
           /\ failed # {} =>
                /\ stage[i] = "Failed" /\ Terminated(i)
                /\ \A p \in failed, q \in PositionsOf(i, IsUpload) : q < p

\* the upload of part 1 of 2 failed, or the upload of part 2 failed after part 1
C3_Witness ==
    \E i, j \in Runs :
        /\ parts[i] = 2 /\ delivered[i] = <<>> /\ stage[i] = "Failed"
        /\ Status("fail_upload", 0) \in {trace[i][k] : k \in 1..Len(trace[i])}
        /\ parts[j] = 2 /\ delivered[j] = <<1>> /\ stage[j] = "Failed"
        /\ Status("fail_upload", 0) \in {trace[j][k] : k \in 1..Len(trace[j])}

\* C4: a run is Done only if every part of its parts list was delivered exactly
\* once and nothing failed; a source of at most PART_MAX_BYTES that ends Done has
\* one part, uploaded once.
C4_DoneMeansAllDelivered ==
    \A i \in Runs :
        stage[i] = "Done" =>
            /\ parts[i] >= 1
            /\ delivered[i] = UpTo(parts[i])
            /\ Len(EventsOf(i, IsUpload)) = parts[i]
            /\ PositionsOf(i, IsUserFailure) = {}
            /\ Status("all_done", parts[i]) \in {trace[i][k] : k \in 1..Len(trace[i])}
            /\ Log("completed", parts[i]) \in {trace[i][k] : k \in 1..Len(trace[i])}
            /\ size[i] <= PART_MAX_BYTES =>
                  (parts[i] = 1 /\ Len(EventsOf(i, IsUpload)) = 1)

\* one run is Done with a source within the size budget, one with a split source
C4_Witness ==
    \E i, j \in Runs :
        /\ stage[i] = "Done" /\ size[i] = PART_MAX_BYTES /\ delivered[i] = <<1>>
        /\ stage[j] = "Done" /\ size[j] > PART_MAX_BYTES /\ delivered[j] = <<1, 2>>

\* C5: a run that ends Failed has emitted exactly one failure report to the
\* requester and exactly one to the log channel, and its cleanup came after both.
C5_OneFailureReport ==
    \A i \in Runs :
        stage[i] = "Failed" =>
            /\ Cardinality(PositionsOf(i, IsUserFailure)) = 1
            /\ Cardinality(PositionsOf(i, IsLogFailure)) = 1
            /\ Terminated(i) /\ ~tmpdir[i]
            /\ trace[i][Len(trace[i])] = Cleaned
            /\ Cardinality(PositionsOf(i, LAMBDA e : e = Cleaned)) = 1

\* one run failed in its upload, one by an exception no stage catches
C5_Witness ==
    \E i, j \in Runs :
        /\ stage[i] = "Failed" /\ PositionsOf(i, LAMBDA e : e.what = "fail_upload") # {}
        /\ stage[j] = "Failed" /\ PositionsOf(j, LAMBDA e : e.what = "fail_pipeline") # {}

\* the clock reading of the latest earlier admitted call for the key of call j, 0
\* when there is none
PrevAdmitted(j) ==
    LET S == {k \in 1..(j - 1) : calls[k].key = calls[j].key /\ calls[k].res}
    IN IF S = {} THEN 0 ELSE calls[SetMax(S)].at

\* C6: for calls made one at a time, two calls for the same key that both return
\* true are at least the interval apart, and the result of a call depends only
\* on the calls made for its own key.
C6_ThrottlePerKey ==
    /\ \A j, k \in 1..Len(calls) :
          (j < k /\ calls[j].key = calls[k].key /\ calls[j].res /\ calls[k].res)
              => calls[k].at - calls[j].at >= PROGRESS_INTERVAL
    /\ \A j \in 1..Len(calls) :
          calls[j].res = (calls[j].at - PrevAdmitted(j) >= PROGRESS_INTERVAL)

\* a key admitted twice, and the other key admitted within the window of the first
C6_Witness ==
    \E j, k, m \in 1..Len(calls) :
        /\ j < k /\ calls[j].key = calls[k].key /\ calls[j].res /\ calls[k].res
        /\ calls[m].key # calls[j].key /\ calls[m].res
        /\ calls[m].at - calls[j].at < PROGRESS_INTERVAL
        /\ calls[j].at - calls[m].at < PROGRESS_INTERVAL

\* C7: no two should() calls for the same key overlap between the read of the
\* timestamp and its write, and no two updates for the same key are both
\* admitted within one interval.
C7_SerializedThrottle ==
    /\ \A v, w \in {1, 2} :
          (v # w /\ tpc[v] = "has_last" /\ tpc[w] = "has_last") => tkey[v] # tkey[w]
    /\ \A j, k \in 1..Len(calls) :
          (j < k /\ calls[j].key = calls[k].key /\ calls[j].res /\ calls[k].res)
              => calls[k].at - calls[j].at >= PROGRESS_INTERVAL

\* the second half of C7 alone: two updates for one key admitted within one interval
C7_AdmittedOncePerInterval ==
    \A j, k \in 1..Len(calls) :
        (j < k /\ calls[j].key = calls[k].key /\ calls[j].res /\ calls[k].res)
            => calls[k].at - calls[j].at >= PROGRESS_INTERVAL

HandlerFailureReports(to) ==
    {k \in 1..Len(hlog) :
        /\ hlog[k].to = to /\ hlog[k].ok
        /\ hlog[k].what \in {"err_fetch", "err_unexpected"}}

\* C9: when all four profiles fail, try_extract_info raises the error of the
\* fourth attempt, the failure is reported once to the requester and once to the
\* log channel, and nothing is retained: no token in SESS, no run, no directory.
C9_ExtractionFailedReportedOnce ==
    (raised # <<>> /\ hpc \in {"done", "crashed"}) =>
        /\ raised = <<4>>
        /\ Cardinality(HandlerFailureReports("user")) = 1
        /\ Cardinality(HandlerFailureReports("log")) = 1
        /\ SESS = {}
        /\ \A i \in Runs : rpc[i] = "none" /\ ~tmpdir[i]

\* C9 where the edit of the status message does not raise
C9_WhenEditSucceeds ==
    (raised # <<>> /\ hpc = "done" /\ \A k \in 1..Len(hlog) : hlog[k].ok) =>
        /\ raised = <<4>>
        /\ Cardinality(HandlerFailureReports("user")) = 1
        /\ Cardinality(HandlerFailureReports("log")) = 1
        /\ SESS = {}
        /\ \A i \in Runs : rpc[i] = "none" /\ ~tmpdir[i]

\* C10: the selection output holds at most one candidate per height, in strictly
\* descending order of height, the height 0 bucket last.
C10_UniqueDescending ==
    /\ \A j, k \in 1..Len(unique) : j < k => HeightOf(unique[j]) > HeightOf(unique[k])
    /\ \A k \in 1..Len(unique) : HeightOf(unique[k]) = 0 => k = Len(unique)
    /\ \A j, k \in 1..Len(kb.leech) : j < k => kb.leech[j].height > kb.leech[k].height

\* two heights were selected from a list of three candidates, two of them of
\* the first height, the second height unknown
C10_Witness ==
    /\ Len(unique) = 2
    /\ HeightOf(unique[2]) = 0
    /\ kb.shown /\ Len(kb.leech) = 2
    /\ Len(info[1]) = 3
    /\ \E j, k \in 1..3 : j # k /\ HeightOf(info[1][j]) = HeightOf(unique[1])
                                /\ HeightOf(info[1][k]) = HeightOf(unique[1])

\* the candidates of the input list of the handler
Input == IF info = <<>> THEN <<>> ELSE info[1]
\* a candidate with a video stream and a height within the ceiling of 1080
Eligible(f) == f.vcodec # "none" /\ HeightOf(f) <= 1080
\* positions of the input list holding eligible candidates of height h
EligibleAt(h) == {p \in 1..Len(Input) : Eligible(Input[p]) /\ HeightOf(Input[p]) = h}

\* C11: no audio-only candidate and no candidate higher than 1080 appears in the
\* selection output or as a resolution button; what appears comes from the input.
C11_NoIneligibleInOutput ==
    /\ \A k \in 1..Len(unique) :
          /\ unique[k].vcodec # "none"
          /\ HeightOf(unique[k]) <= 1080
          /\ \E p \in 1..Len(Input) : Input[p] = unique[k]
    /\ \A k \in 1..Len(kb.leech) :
          \A p \in 1..Len(Input) :
              Input[p].format_id = kb.leech[k].fmtid => Eligible(Input[p])

\* an audio-only candidate, one of 1440 lines and an eligible one were given, and
\* the keyboard shows the one button of the eligible candidate
C11_Witness ==
    /\ kb.shown /\ Len(kb.leech) = 1 /\ Len(unique) = 1
    /\ \E p, q \in 1..Len(Input) :
          /\ Input[p].vcodec = "none"
          /\ Input[q].vcodec # "none" /\ HeightOf(Input[q]) > 1080

\* the composite score without the truncation of its bitrate term, in thousandths
ExactScore1000(f) == OrZero(f.filesize) * 1000 + OrZero(f.tbr) * 1024

\* the first position of the input list whose candidate is eligible, has the
\* height of f and has the greatest value of Score among these
FirstBest(f, Score(_)) ==
    LET S == EligibleAt(HeightOf(f))
        best == {p \in S : \A q \in S : Score(Input[q]) <= Score(Input[p])}
    IN SetMin(best)

\* C12: for every height of the selection output the chosen candidate has the
\* greatest composite score, file size plus the bitrate term int(tbr * 1024)
\* truncated to an integer, among the eligible candidates of that height, and
\* among several of that score it is the first of the input list.
C12_BestTruncatedScoreFirstWins ==
    \A k \in 1..Len(unique) : unique[k] = Input[FirstBest(unique[k], ScoreOf)]

\* C12 as stated, the score being file size plus bitrate times 1024 untruncated
C12_BestExactScoreFirstWins ==
    \A k \in 1..Len(unique) : unique[k] = Input[FirstBest(unique[k], ExactScore1000)]

\* three eligible candidates of one height were given, the first two of the
\* greatest score and the third of a smaller one; the first was chosen
C12_Witness ==
    /\ Len(Input) = 3 /\ Len(unique) = 1 /\ unique[1] = Input[1]
    /\ \A p \in 1..3 : Eligible(Input[p])
    /\ Input[1] # Input[2]
    /\ ScoreOf(Input[1]) = ScoreOf(Input[2])
    /\ ScoreOf(Input[3]) < ScoreOf(Input[1])

\* no candidate of the input list can be selected
NoEligible == \A p \in 1..Len(Input) : ~Eligible(Input[p])

\* C13: when the extractor returned info but no candidate is eligible, no token is
\* added to SESS, no resolution choice is shown, no run exists, and a handler that
\* ended without a failed edit has reported that no formats are available.
C13_SessionOnlyIfSelectable ==
    (info # <<>> /\ NoEligible /\ hpc # "got_info") =>
        /\ NewToken \notin SESS
        /\ ~kb.shown
        /\ \A i \in Runs : rpc[i] = "none"
        /\ (hpc = "done" /\ \A k \in 1..Len(hlog) : hlog[k].ok) =>
              \E k \in 1..Len(hlog) : hlog[k].what = "no_video"

\* C13 for the lists that hold no candidate with a video stream
C13_AudioOnlyReported ==
    (info # <<>> /\ video_formats(Input) = <<>> /\ hpc # "got_info") =>
        /\ NewToken \notin SESS
        /\ ~kb.shown
        /\ \A i \in Runs : rpc[i] = "none"

WorkingStages == {"Downloading", "Normalizing", "Splitting", "Uploading"}

\* C14: a run in flight whose session a CANCEL callback has removed starts no
\* further stage: from the stage it is in it goes on only to its end.
C14_CancelStopsAfterStage ==
    [][\A i \in Runs :
          (rtoken[i] \in cancelled /\ stage[i] \in WorkingStages /\ stage'[i] # stage[i])
              => stage'[i] \in {"Done", "Failed"}]_vars

\* C14 for the uploads: no upload begins in a run whose session was removed in a
\* stage before Uploading
C14_NoUploadAfterCancel ==
    [][\A i \in Runs :
          (rtoken[i] \in cancelled /\ stage[i] \in WorkingStages /\ stage[i] # "Uploading")
              => stage'[i] # "Uploading"]_vars

\* C15: no pipeline task is created for a token whose session a CANCEL callback
\* has removed.
C15_NoRunAfterCancel ==
    [][\A i \in Runs :
          (rpc[i] # "created" /\ rpc'[i] = "created") => rtoken[i] \notin cancelled]_vars

\* a LEECH callback that arrives after the CANCEL callback is answered with
\* "Session expired"
C15_LaterCallbackExpires ==
    [][\A i \in Runs :
          (rpc[i] = "none" /\ rpc'[i] # "none" /\ rtoken'[i] \in cancelled)
              => rpc'[i] = "expired"]_vars

\* events of the trace of run i, as a set
Events(i) == {trace[i][k] : k \in 1..Len(trace[i])}
\* the downloads whose stream-copy remux into MP4 exits successfully, given a
\* working transcoder: those of an H.264 format
StreamCopyable(f) == f.vcodec = "avc1"
\* run i has finished its download with a file
PastDownload(i) == Status("download_complete", 0) \in Events(i)
\* run i has got past its normalization
PastNormalization(i) == \E e \in Events(i) : e.ev = "stat"

\* C16: in a run whose download is of a format the remux would copy successfully,
\* the re-encode is not invoked and the file handed on is the remux output.
C16_RemuxSkipsReencode ==
    \A i \in Runs :
        (PastDownload(i) /\ \A k \in 1..Len(unique) : StreamCopyable(unique[k])) =>
            /\ Op("reencode", 0) \notin Events(i)
            /\ PastNormalization(i) => Ev("stat", remuxed, 0) \in Events(i)

\* C17: the file given to the split decision and to the upload is never the
\* downloaded file; after the failed remux and the re-encode it is the re-encoded
\* file, and the run went to splitting or upload with it.
C17_NeverTheOriginal ==
    \A i \in Runs :
        /\ Ev("stat", downloaded, 0) \notin Events(i)
        /\ stage[i] \in {"Splitting", "Uploading", "Done"} => PastNormalization(i)
        /\ PastNormalization(i) =>
              /\ Status("remux_failed_reencoding", 0) \in Events(i)
              /\ Op("reencode", 0) \in Events(i)
              /\ Ev("stat", reenc, 0) \in Events(i)
              /\ \A e \in Events(i) : e.ev = "stat" => e.what = reenc

\* one run is splitting the re-encoded file, another has uploaded it whole
C17_Witness ==
    \E i, j \in Runs :
        /\ stage[i] = "Splitting" /\ Ev("stat", reenc, 0) \in Events(i)
        /\ stage[j] = "Done" /\ parts[j] = 1 /\ Ev("stat", reenc, 0) \in Events(j)

\* split_mp4_by_time has returned or raised
SplitEnded == sp.pc \in {"returned", "raised"}
\* the least n with n * d >= a, for d > 0
CeilDiv(a, d) == (a + d - 1) \div d

\* C18: called on a file of at most max_bytes, split_mp4_by_time returns the one
\* part src, without probing the duration and without running the transcoder.
C18_SmallFileIsItsOwnPart ==
    (sp.pc # "idle" /\ sp.size <= sp.max_bytes) =>
        /\ sp.pc = "returned"
        /\ sp.result = <<"src">>
        /\ sp.probes = 0 /\ sp.duration = None
        /\ sp.strides = <<>>

\* a call with a file of exactly max_bytes has returned
C18_Witness == sp.pc = "returned" /\ sp.size = sp.max_bytes /\ sp.size > 0

\* C19: called on a file larger than max_bytes whose probed duration is not
\* positive, split_mp4_by_time raises, runs no stride and returns no parts.
C19_NoDurationRaises ==
    (sp.size > sp.max_bytes /\ sp.duration # None /\ OrZero(sp.duration) <= 0) =>
        /\ sp.pc = "raised"
        /\ sp.strides = <<>>
        /\ sp.result = <<>>

\* the probe of a file larger than max_bytes failed and the call has raised
C19_Witness == sp.pc = "raised" /\ sp.size > sp.max_bytes /\ sp.duration = Some(0)

\* C20: when split_mp4_by_time returns for a file larger than max_bytes, every
\* part is of at most max_bytes + 1 MiB, part i starts at (i-1) * seg_secs and
\* lasts seg_secs so that the parts cover 0 to ceil(duration) without gaps, and
\* there are ceil(ceil(duration) / seg_secs) parts.
C20_PartsCoverTimeline ==
    (sp.pc = "returned" /\ sp.size > sp.max_bytes) =>
        LET parts_ == sp.result
            n == Len(parts_)
            ceil_duration == CeilDiv(OrZero(sp.duration), 2)
        IN /\ OrZero(sp.duration) > 0
           /\ sp.total_secs = ceil_duration
           /\ sp.seg_secs >= 1
           /\ n = CeilDiv(ceil_duration, sp.seg_secs)
           /\ n >= 1
           /\ \A i \in 1..n :
                /\ parts_[i].size <= sp.max_bytes + 1048576
                /\ parts_[i].rc = 0
                /\ parts_[i].idx = i
                /\ parts_[i].ss = (i - 1) * sp.seg_secs
                /\ parts_[i].t = sp.seg_secs
           /\ parts_[1].ss = 0
           /\ \A i \in 1..(n - 1) : parts_[i].ss + parts_[i].t = parts_[i + 1].ss
           /\ parts_[n].ss < ceil_duration
           /\ parts_[n].ss + parts_[n].t >= ceil_duration

\* a file of a duration with a fraction was split into three parts, one of them of
\* exactly max_bytes + 1 MiB
C20_Witness ==
    /\ sp.pc = "returned" /\ sp.size > sp.max_bytes
    /\ OrZero(sp.duration) % 2 = 1
    /\ Len(sp.result) = 3
    /\ \E i \in 1..3 : sp.result[i].size = sp.max_bytes + 1048576

\* the offsets of the strides run so far
StrideStarts == [k \in 1..Len(sp.strides) |-> sp.strides[k].ss]
\* the call of scenario B has probed its duration of 3600 seconds
InScenarioB ==
    /\ sp.unit = 4 /\ sp.size = 1073741824 /\ sp.max_bytes * 4 = 2093796556
    /\ sp.duration = Some(7200)

\* C21: for a source of 4 GiB with a duration of 3600 s and max_bytes of
\* 2,093,796,556 the segment length is 1754 seconds, and a call that runs all its
\* strides runs exactly three, at the offsets 0, 1754 and 3508.
C21_ScenarioB1754 ==
    InScenarioB =>
        /\ sp.seg_secs = 1754
        /\ sp.total_secs = 3600
        /\ StrideStarts = SubSeq(<<0, 1754, 3508>>, 1, Len(sp.strides))
        /\ sp.pc \in {"checking", "returned"} => Len(sp.strides) = 3
        /\ sp.pc = "returned" => Len(sp.result) = 3

\* C21 as stated: a segment length of 1753 seconds, strides at 0, 1753 and 3506
C21_ScenarioB1753 ==
    InScenarioB =>
        /\ sp.seg_secs = 1753
        /\ StrideStarts = SubSeq(<<0, 1753, 3506>>, 1, Len(sp.strides))
        /\ sp.pc \in {"checking", "returned"} => Len(sp.strides) = 3

\* the call of scenario B has returned its three parts
C21_Witness == InScenarioB /\ sp.pc = "returned" /\ Len(sp.result) = 3

\* the call has computed its segment length: the duration was probed and is positive
SegComputed == sp.size > sp.max_bytes /\ sp.duration # None /\ OrZero(sp.duration) > 0
\* floor(max_bytes / (size / duration)) of the call, the duration in halves of a second
FloorQuotient == (sp.max_bytes * OrZero(sp.duration)) \div (2 * sp.size)

\* C27: the segment length is max(5, floor(max_bytes / (size / duration))); every
\* stride requests that duration, which is at least 5 seconds, so all strides of
\* one split request the same duration.
C27_SegmentLengthClamped ==
    SegComputed =>
        /\ sp.seg_secs = (IF FloorQuotient > 5 THEN FloorQuotient ELSE 5)
        /\ \A k \in 1..Len(sp.strides) :
               sp.strides[k].t = sp.seg_secs /\ sp.strides[k].t >= 5
        /\ \A k, l \in 1..Len(sp.strides) : sp.strides[k].t = sp.strides[l].t

\* a split whose quotient of 1 to 4 seconds was raised to 5 has returned 3 parts
C27_Witness ==
    /\ SegComputed /\ sp.pc = "returned"
    /\ FloorQuotient \in 1..4
    /\ Len(sp.result) = 3

\* C28: when floor(max_bytes / bytesPerSecond) is 0 or less the split uses the
\* minimum segment length of 5 seconds; the 10 seconds of line 489 are never used.
C28_CollapsedQuotientGivesFive ==
    (SegComputed /\ FloorQuotient <= 0) =>
        /\ sp.seg_secs = 5
        /\ \A k \in 1..Len(sp.strides) : sp.strides[k].t = 5

\* C28 as stated: a quotient of 0 or less gives a segment length of 10 seconds
C28_CollapsedQuotientGivesTen ==
    (SegComputed /\ FloorQuotient <= 0) =>
        /\ sp.seg_secs = 10
        /\ \A k \in 1..Len(sp.strides) : sp.strides[k].t = 10

\* a split whose quotient is 0 has run its one stride and returned
C28_Witness ==
    /\ SegComputed /\ FloorQuotient = 0
    /\ sp.pc = "returned" /\ Len(sp.result) = 1 /\ sp.result[1].t = 5

\* C22: a run that reports the download error has attempted the download under
\* each of the four negotiation profiles of the extractor.
C22_DownloadTriesAllProfiles ==
    \A i \in Runs :
        Status("fail_download", 0) \in Events(i) =>
            Cardinality(PositionsOf(i, LAMBDA e : e = Op("download", 0)))
                = Len(attempts_list)

\* the progress stream of run i is active: ytdl_hook during run_ydl, progress_cb
\* during send_video
StreamActive(i) == rpc[i] \in {"downloading", "uploading"}
\* part.name of the part run i uploads: the name of src_for_split, or
\* f"{src.stem}.part{idx:02d}.mp4" of split_mp4_by_time; the stem is the title
\* of the video of the request
PartNameOf(i) ==
    IF NeedsSplit(size[i])
    THEN src_for_split \o ".part0" \o <<"1", "2", "3", "4">>[idx[i]]
    ELSE src_for_split
\* the throttle key of the active progress stream of run i (lines 286 and 397)
StreamKey(i) ==
    IF rpc[i] = "downloading" THEN dl_key(rtoken[i])
    ELSE upl_key(rtoken[i], PartNameOf(i))

\* C23: two distinct progress streams that are active at the same time use
\* distinct throttle keys.
C23_DistinctStreamKeys ==
    \A i, j \in Runs :
        (i # j /\ StreamActive(i) /\ StreamActive(j)) => StreamKey(i) # StreamKey(j)

\* C25: after a stage of a run has failed no external operation is invoked any
\* more by that run, and a run whose normalization failed (the remux and the
\* re-encode) has uploaded nothing.
C25_NoOperationAfterFailure ==
    \A i \in Runs :
        /\ \A p \in PositionsOf(i, IsUserFailure) :
               \A q \in (p + 1)..Len(trace[i]) : trace[i][q].ev # "op"
        /\ Status("fail_normalize", 0) \in Events(i) =>
               /\ Status("remux_failed_reencoding", 0) \in Events(i)
               /\ PositionsOf(i, IsUpload) = {}
               /\ PositionsOf(i, LAMBDA e : e.ev = "op" /\ e.what \in {"probe", "split_stride"}) = {}
               /\ delivered[i] = <<>>

\* a run whose re-encode failed after the remux had failed has terminated
C25_Witness ==
    \E i \in Runs :
        /\ Terminated(i) /\ stage[i] = "Failed"
        /\ Op("reencode", 0) \in Events(i)
        /\ Status("fail_normalize", 0) \in Events(i)

C29_StatusOnEveryStageEntry ==
    \A i \in Runs :
        /\ \A p \in 1..Len(trace[i]) :
               /\ trace[i][p] \in {Op("download", 0), Op("reencode", 0), Op("probe", 0)}
                      \cup {Op("upload", k) : k \in 1..(MaxParts + 1)}
                      => (p > 1 /\ trace[i][p - 1].ev = "status")
               /\ (trace[i][p].ev = "stat" /\ p < Len(trace[i]))
                      => trace[i][p + 1] = Status("splitting", 0)
        /\ stage[i] = "Done" => \E n \in 1..(MaxParts + 1) : Status("all_done", n) \in Events(i)

\* the stages other than Downloading, and the split that is not the identity
C29_StatusOnOtherStageEntries ==
    \A i \in Runs :
        /\ \A p \in 1..Len(trace[i]) :
               trace[i][p] \in {Op("reencode", 0), Op("probe", 0)}
                      \cup {Op("upload", k) : k \in 1..(MaxParts + 1)}
                      => (p > 1 /\ trace[i][p - 1].ev = "status")
        /\ stage[i] = "Done" => \E n \in 1..(MaxParts + 1) : Status("all_done", n) \in Events(i)

\* a status text of run i that ends the run: the completion or a failure
IsTerminalStatus(e) == IsUserFailure(e) \/ (e.ev = "status" /\ e.what = "all_done")

\* C24: the terminal status of a run is the last status text delivered to its
\* status message: no progress text follows it.
C24_TerminalStatusIsLast ==
    \A i \in Runs : \A p \in PositionsOf(i, IsTerminalStatus) :
        \A q \in (p + 1)..Len(trace[i]) : trace[i][q].ev # "status"

\* of the texts pipeline_task awaits itself the terminal status is the last
C24_LastOfAwaitedStatuses ==
    \A i \in Runs : \A p \in PositionsOf(i, IsTerminalStatus) :
        \A q \in (p + 1)..Len(trace[i]) :
            trace[i][q].ev = "status" => trace[i][q] = Progress

\* C30: every run that was started eventually reaches Done or Failed and has
\* then removed its working directory, when every call it awaits returns or raises.
C30_EveryRunEnds ==
    \A i \in Runs :
        (rpc[i] # "none") ~>
            (Terminated(i) /\ stage[i] \in {"Done", "Failed"} /\ ~tmpdir[i])

\* a run has ended Done after the longest split and upload, another Failed
C30_Witness ==
    \E i, j \in Runs :
        /\ Terminated(i) /\ stage[i] = "Done" /\ Len(delivered[i]) = MaxParts
        /\ Terminated(j) /\ stage[j] = "Failed" /\ ~tmpdir[j]

\* split_mp4_by_time, once called, returns or raises
C30_SplitEnds == (sp.pc # "idle") ~> SplitEnded

\* call j is the first call of should() for its key
FirstForKey(j) == \A k \in 1..(j - 1) : calls[k].key # calls[j].key

\* C31: the first call of should() for a key returns true, at whatever reading of
\* the monotonic clock it is made.
C31_FirstCallAdmitted ==
    \A j \in 1..Len(calls) : FirstForKey(j) => calls[j].res

\* the first call for a key returns true exactly when the clock reads at least
\* the interval
C31_FirstCallAdmittedFromInterval ==
    \A j \in 1..Len(calls) :
        FirstForKey(j) => (calls[j].res = (calls[j].at >= PROGRESS_INTERVAL))

====
